---- MODULE Spec2Model ----
(***************************************************************************)
(* A model of two pieces of Pyblosxom:                                     *)
(*   - libs/entries/base.py : EntryBase, the mapping-like entry object;    *)
(*   - Pyblosxom/plugins/readmore.py : the readmore plugin (cb_story and   *)
(*     verify_installation).                                               *)
(* EntrySpec drives an EntryBase through its methods; StorySpec runs the   *)
(* plugin's callbacks on a request.  Text handled by the plugin is a       *)
(* sequence of one-character strings, so that the regular expression and   *)
(* the %-formatting are computed character by character.                   *)
(***************************************************************************)
EXTENDS Integers, Sequences, FiniteSets, TLC

VARIABLES
    \* ---- EntryBase (libs/entries/base.py) ----
    _data,          \* self._data
    _metadata,      \* self._metadata : a function from keys to values
    lastData,       \* history: the argument of the most recent setData
    call,           \* the most recent method call: [op, key]
    ret,            \* what that call returned
    raised,         \* "" or the name of the exception it raised
    \* ---- readmore plugin (Pyblosxom/plugins/readmore.py) ----
    entry,          \* args["entry"] : a function from keys to values
    entry0,         \* history: the entry as cb_story received it
    config,         \* request.get_configuration()
    data,           \* request.get_data()
    storyRet,       \* "notrun", "returned" or the exception cb_story raised
    verifyRet,      \* "notrun" or what verify_installation returned
    warnings        \* the property names verify_installation passed to pwrap

entryVars == <<_data, _metadata, lastData, call, ret, raised>>
storyVars == <<entry, entry0, config, data, storyRet, verifyRet, warnings>>
vars == <<_data, _metadata, lastData, call, ret, raised,
          entry, entry0, config, data, storyRet, verifyRet, warnings>>

(***************************************************************************)
(* Python values.  Every value carries its type, so that values of         *)
(* different types can sit in one dictionary and be told apart.            *)
(***************************************************************************)
PyNone == [t |-> "none"]
PyStr(s) == [t |-> "str", s |-> s]
PyInt(n) == [t |-> "int", n |-> n]
PyTuple(tt) == [t |-> "tuple", tt |-> tt]
PyList(l) == [t |-> "list", l |-> l]

Digits == <<"0", "1", "2", "3", "4", "5", "6", "7", "8", "9">>

Digit(d) == Digits[d + 1]

RECURSIVE NatToStr(_)
NatToStr(n) == IF n < 10 THEN Digit(n) ELSE NatToStr(n \div 10) \o Digit(n % 10)

\* str(x) for the values an entry's data slot holds
Str(x) ==
    CASE x.t = "none" -> "None"
      [] x.t = "str" -> x.s
      [] x.t = "int" -> IF x.n < 0 THEN "-" \o NatToStr(0 - x.n) ELSE NatToStr(x.n)

(***************************************************************************)
(* Bounds and input sets of the EntryBase model.                           *)
(***************************************************************************)
MaxValue == 2

CONTENT_KEY == "content"

\* keys a caller reads, writes and deletes
Keys == {CONTENT_KEY, "title", "ti", "timetuple"}

\* values a caller writes through the generic setter
Values == {PyInt(i) : i \in 1..MaxValue} \cup {PyStr("v")}

\* values a loader gives to setData
DataValues == {PyNone, PyStr("text"), PyInt(42)}

\* struct_time values handed to setTime
TimeTuples ==
    { [year |-> 2004, mon |-> 2, mday |-> 9, hour |-> 7, min |-> 5, sec |-> 0,
       wday |-> 0, yday |-> 40, isdst |-> 0],
      [year |-> 2011, mon |-> 11, mday |-> 25, hour |-> 23, min |-> 59, sec |-> 41,
       wday |-> 4, yday |-> 329, isdst |-> 1] }

(***************************************************************************)
(* time.strftime                                                           *)
(***************************************************************************)
MonthAbbr == <<"Jan", "Feb", "Mar", "Apr", "May", "Jun",
               "Jul", "Aug", "Sep", "Oct", "Nov", "Dec">>

DayAbbr == <<"Mon", "Tue", "Wed", "Thu", "Fri", "Sat", "Sun">>

\* time.tzname of the process: the names %Z chooses between by tm_isdst
tzname == <<"EST", "EDT">>

Pad2(n) == Digit((n \div 10) % 10) \o Digit(n % 10)

Pad4(n) == Pad2(n \div 100) \o Pad2(n % 100)

\* strftime of one directive
Directive(d, tt) ==
    CASE d = "H" -> Pad2(tt.hour)
      [] d = "M" -> Pad2(tt.min)
      [] d = "S" -> Pad2(tt.sec)
      [] d = "b" -> MonthAbbr[tt.mon]
      [] d = "m" -> Pad2(tt.mon)
      [] d = "d" -> Pad2(tt.mday)
      [] d = "Y" -> Pad4(tt.year)
      [] d = "a" -> DayAbbr[tt.wday + 1]
      [] d = "Z" -> tzname[tt.isdst + 1]

\* strftime of a format given as a sequence of pieces, each a directive
\* or literal text
RECURSIVE strftime(_, _)
strftime(fmt, tt) ==
    IF fmt = <<>> THEN ""
    ELSE LET p == Head(fmt)
         IN (IF p.lit THEN p.v ELSE Directive(p.v, tt))
                \o strftime(Tail(fmt), tt)

\* the directive %d of a format
D(d) == [lit |-> FALSE, v |-> d]

\* literal text of a format
L(s) == [lit |-> TRUE, v |-> s]

\* the keys setTime assigns a formatted time to, with the format of each
TimeFormats ==
    [ ti |-> <<D("H"), L(":"), D("M")>>,
      mo |-> <<D("b")>>,
      mo_num |-> <<D("m")>>,
      da |-> <<D("d")>>,
      yr |-> <<D("Y")>>,
      fulltime |-> <<D("Y"), D("m"), D("d"), D("H"), D("M"), D("S")>>,
      w3cdate |-> <<D("Y"), L("-"), D("m"), L("-"), D("d"), L("T"),
                    D("H"), L(":"), D("M"), L(":"), D("S"), D("Z")>>,
      date |-> <<D("a"), L(", "), D("d"), L(" "), D("b"), L(" "), D("Y")>> ]

\* the order of setTime's formatted assignments
TimeKeyOrder == <<"ti", "mo", "mo_num", "da", "yr", "fulltime", "w3cdate", "date">>

(***************************************************************************)
(* Dictionary helpers                                                      *)
(***************************************************************************)
\* {}
EmptyDict == [x \in {} |-> PyNone]

\* d[k] = v
DictSet(d, k, v) == [x \in DOMAIN d \cup {k} |-> IF x = k THEN v ELSE d[x]]

\* del d[k], for k in d
DictDel(d, k) == [x \in DOMAIN d \ {k} |-> d[x]]

\* d.get(k, default)
DictGet(d, k, default) == IF k \in DOMAIN d THEN d[k] ELSE default

\* d.keys(): the keys of d, each once, in the dictionary's order
RECURSIVE DictKeys(_)
DictKeys(S) ==
    IF S = {} THEN <<>>
    ELSE LET k == CHOOSE x \in S : TRUE IN <<k>> \o DictKeys(S \ {k})

(***************************************************************************)
(* EntryBase                                                               *)
(***************************************************************************)
\* EntryBase.__init__, with no call made yet and no request being rendered
EntryInit ==
    /\ _data = PyNone
    /\ _metadata = EmptyDict
    /\ lastData = PyNone
    /\ call = [op |-> "__init__", key |-> ""]
    /\ ret = PyNone
    /\ raised = ""
    /\ entry = EmptyDict
    /\ entry0 = EmptyDict
    /\ config = EmptyDict
    /\ data = EmptyDict
    /\ storyRet = "notrun"
    /\ verifyRet = "notrun"
    /\ warnings = {}

\* EntryBase.getData
getData == PyStr(Str(_data))

\* EntryBase.setData
setData(d) ==
    /\ _data' = d
    /\ lastData' = d
    /\ call' = [op |-> "setData", key |-> ""]
    /\ ret' = PyNone
    /\ raised' = ""
    /\ UNCHANGED _metadata

\* the metadata after the first n formatted assignments of setTime
RECURSIVE SetTimeFormatted(_, _, _)
SetTimeFormatted(md, tt, n) ==
    IF n = 0 THEN md
    ELSE LET k == TimeKeyOrder[n]
         IN DictSet(SetTimeFormatted(md, tt, n - 1), k,
                    PyStr(strftime(TimeFormats[k], tt)))

\* setTime without its last assignment, self['date']
setTimeSkipsDate(tt) ==
    /\ _metadata' = SetTimeFormatted(DictSet(_metadata, "timetuple", PyTuple(tt)),
                                     tt, Len(TimeKeyOrder) - 1)
    /\ call' = [op |-> "setTime", key |-> ""]
    /\ ret' = PyNone
    /\ raised' = ""
    /\ UNCHANGED <<_data, lastData>>

\* EntryBase.setTime
setTime(tt) ==
    /\ _metadata' = SetTimeFormatted(DictSet(_metadata, "timetuple", PyTuple(tt)),
                                     tt, Len(TimeKeyOrder))
    /\ call' = [op |-> "setTime", key |-> ""]
    /\ ret' = PyNone
    /\ raised' = ""
    /\ UNCHANGED <<_data, lastData>>

\* __getitem__ without the test for CONTENT_KEY
getitemNoIntercept(key) ==
    /\ ret' = DictGet(_metadata, key, PyNone)
    /\ call' = [op |-> "__getitem__", key |-> key]
    /\ raised' = ""
    /\ UNCHANGED <<_data, lastData, _metadata>>

\* EntryBase.__getitem__, called as entry[key]
__getitem__(key) ==
    /\ ret' = IF key = CONTENT_KEY THEN getData ELSE DictGet(_metadata, key, PyNone)
    /\ call' = [op |-> "__getitem__", key |-> key]
    /\ raised' = ""
    /\ UNCHANGED <<_data, lastData, _metadata>>

\* EntryBase.__setitem__
__setitem__(key, value) ==
    /\ _metadata' = DictSet(_metadata, key, value)
    /\ call' = [op |-> "__setitem__", key |-> key]
    /\ ret' = PyNone
    /\ raised' = ""
    /\ UNCHANGED <<_data, lastData>>

\* EntryBase.__delitem__: del on a dictionary raises KeyError for a missing key
__delitem__(key) ==
    /\ call' = [op |-> "__delitem__", key |-> key]
    /\ ret' = PyNone
    /\ IF key \in DOMAIN _metadata
       THEN /\ _metadata' = DictDel(_metadata, key)
            /\ raised' = ""
       ELSE /\ raised' = "KeyError"
            /\ UNCHANGED _metadata
    /\ UNCHANGED <<_data, lastData>>

\* EntryBase.has_key
has_key(key) ==
    /\ ret' = IF key = CONTENT_KEY THEN PyInt(1)
              ELSE PyInt(IF key \in DOMAIN _metadata THEN 1 ELSE 0)
    /\ call' = [op |-> "has_key", key |-> key]
    /\ raised' = ""
    /\ UNCHANGED <<_data, lastData, _metadata>>

\* EntryBase.keys
keys ==
    /\ ret' = PyList(DictKeys(DOMAIN _metadata) \o <<CONTENT_KEY>>)
    /\ call' = [op |-> "keys", key |-> ""]
    /\ raised' = ""
    /\ UNCHANGED <<_data, lastData, _metadata>>

(***************************************************************************)
(* readmore plugin: text as sequences of one-character strings             *)
(***************************************************************************)
MaxFrags == 3

READMORE_BREAKPOINT == <<"B", "R", "E", "A", "K">>

READMORE_TEMPLATE ==
    <<"<", "p", " ", "c", "l", "a", "s", "s", "=", "\"", "r", "e", "a",
      "d", "m", "o", "r", "e", "\"", ">", "<", "a", " ", "h", "r", "e",
      "f", "=", "\"", "%", "(", "u", "r", "l", ")", "s", "\"", ">", "r",
      "e", "a", "d", " ", "m", "o", "r", "e", " ", "a", "f", "t", "e", "r",
      " ", "t", "h", "e", " ", "b", "r", "e", "a", "k", ".", ".", ".", "<",
      "/", "a", ">", "<", "/", "p", ">">>

\* a configured template that uses every variable the plugin provides
AllVarsTemplate ==
    <<"%", "(", "b", "a", "s", "e", "_", "u", "r", "l", ")", "s", "|", "%",
      "(", "f", "i", "l", "e", "_", "p", "a", "t", "h", ")", "s", "|", "%",
      "(", "f", "l", "a", "v", "o", "u", "r", ")", "s", "|", "%", "(", "u",
      "r", "l", ")", "s", " ", "1", "0", "0", "%", "%">>

\* a configured template that names a variable the plugin does not provide
BadTemplate ==
    <<"<", "a", " ", "h", "r", "e", "f", "=", "\"", "%", "(", "u", "r",
      "l", ")", "s", "\"", ">", "%", "(", "t", "i", "t", "l", "e", ")",
      "s", "<", "/", "a", ">">>

\* a configured breakpoint other than the default
ShortBreakpoint == <<"B">>

BaseUrl == <<"h", "t", "t", "p", ":", "/", "/", "b">>

FilePath == <<"e", "1">>

\* the pieces bodies are written from
Fragments ==
    { READMORE_BREAKPOINT, <<"B">>, <<"x">>, <<"\n">>, <<" ">>, <<"<">>, <<"/">>,
      <<"<", "/", "p", ">">> }

\* the texts made of at most n fragments
RECURSIVE TextsOf(_)
TextsOf(n) ==
    IF n = 0 THEN {<<>>}
    ELSE LET P == TextsOf(n - 1) IN P \cup {b \o f : b \in P, f \in Fragments}

Bodies == TextsOf(MaxFrags)

\* pat occurs in s at position i (from 1)
StartsAt(s, pat, i) ==
    /\ i >= 1
    /\ i + Len(pat) - 1 <= Len(s)
    /\ \A j \in 1..Len(pat) : s[i + j - 1] = pat[j]

\* the positions at which pat occurs in s
Occurrences(s, pat) == {i \in 1..Len(s) : StartsAt(s, pat, i)}

\* the regular expression <[ ]*?[^/].+ matches at position p of s:
\* "<", some spaces, a character other than "/", and at least one more
\* character that is not a newline
OpenTagAt(s, p) ==
    /\ p <= Len(s)
    /\ s[p] = "<"
    /\ \E j \in 0..Len(s) :
          /\ \A q \in (p + 1)..(p + j) : q <= Len(s) /\ s[q] = " "
          /\ p + 1 + j <= Len(s)
          /\ s[p + 1 + j] # "/"
          /\ p + 2 + j <= Len(s)
          /\ s[p + 2 + j] # "\n"

\* the third group, (<[ ]*?[^/].+|[\n]), matches at position p of s
DelimiterAt(s, p) == p <= Len(s) /\ (OpenTagAt(s, p) \/ s[p] = "\n")

\* the positions p at which the third group can start when the breakpoint
\* starts at i: (.*?) takes the characters from the end of the breakpoint
\* up to p, none of them a newline
DelimitersFrom(s, bp, i) ==
    {p \in (i + Len(bp))..Len(s) :
        /\ DelimiterAt(s, p)
        /\ \A q \in (i + Len(bp))..(p - 1) : s[q] # "\n"}

\* the whole pattern matches with the breakpoint at position i of s
MatchesAt(s, bp, i) == StartsAt(s, bp, i) /\ DelimitersFrom(s, bp, i) # {}

Min(S) == CHOOSE x \in S : \A y \in S : x <= y

NoMatch == [found |-> FALSE]

\* re.search with the breakpoint left out of the pattern
searchIgnoresBreakpoint(bp, s) ==
    LET starts == {i \in 1..Len(s) : DelimitersFrom(s, <<>>, i) # {}}
    IN IF starts = {} THEN NoMatch
       ELSE LET i == Min(starts)
                p == Min(DelimitersFrom(s, <<>>, i))
            IN [found |-> TRUE, start1 |-> i - 1,
                group2 |-> SubSeq(s, i, p - 1)]

\* re.search('(' + breakpoint + ')(.*?)(<[ ]*?[^/].+|[\n])', body): the
\* leftmost match, its second group the shortest possible.  start1 is
\* match.start(1), counted from 0; group2 is match.group(2).
search(bp, s) ==
    LET starts == {i \in 1..Len(s) : MatchesAt(s, bp, i)}
    IN IF starts = {} THEN NoMatch
       ELSE LET i == Min(starts)
                p == Min(DelimitersFrom(s, bp, i))
            IN [found |-> TRUE, start1 |-> i - 1,
                group2 |-> SubSeq(s, i + Len(bp), p - 1)]

\* re.sub(breakpoint, "", body), scanning from position i: every
\* occurrence found from left to right, not overlapping, is dropped
RECURSIVE SubFrom(_, _, _)
SubFrom(bp, s, i) ==
    IF i > Len(s) THEN <<>>
    ELSE IF StartsAt(s, bp, i) THEN SubFrom(bp, s, i + Len(bp))
    ELSE <<s[i]>> \o SubFrom(bp, s, i + 1)

sub(bp, s) == SubFrom(bp, s, 1)

\* the position of the first ")" of t from position i on, 0 if none
CloseParen(t, i) ==
    LET ps == {q \in i..Len(t) : t[q] = ")"}
    IN IF ps = {} THEN 0 ELSE Min(ps)

FormatError(e) == [ok |-> FALSE, err |-> e]

\* lit \o piece \o the formatted rest, or the rest's error
FormatJoin(lit, piece, rest) ==
    IF rest.ok THEN [ok |-> TRUE, s |-> lit \o piece \o rest.s] ELSE rest

\* template % mapping, from position i of the template: text up to the
\* next "%" is copied, "%(name)s" is replaced by mapping[name], "%%" by
\* "%"; a name the mapping lacks raises KeyError, any other use of "%"
\* raises ValueError
RECURSIVE FormatFrom(_, _, _)
FormatFrom(t, mapping, i) ==
    LET ps == {q \in i..Len(t) : t[q] = "%"}
    IN IF ps = {} THEN [ok |-> TRUE, s |-> SubSeq(t, i, Len(t))]
       ELSE LET q == Min(ps)
                lit == SubSeq(t, i, q - 1)
            IN IF q + 1 <= Len(t) /\ t[q + 1] = "%"
               THEN FormatJoin(lit, <<"%">>, FormatFrom(t, mapping, q + 2))
               ELSE IF q + 1 <= Len(t) /\ t[q + 1] = "("
               THEN LET c == CloseParen(t, q + 2)
                    IN IF c = 0 \/ c + 1 > Len(t) \/ t[c + 1] # "s"
                       THEN FormatError("ValueError")
                       ELSE LET name == SubSeq(t, q + 2, c - 1)
                            IN IF name \notin DOMAIN mapping
                               THEN FormatError("KeyError")
                               ELSE FormatJoin(lit, mapping[name],
                                               FormatFrom(t, mapping, c + 2))
               ELSE FormatError("ValueError")

Format(t, mapping) == FormatFrom(t, mapping, 1)

(***************************************************************************)
(* readmore plugin: the request and the callbacks                          *)
(***************************************************************************)
HtmlFlavour == <<"h", "t", "m", "l">>

RssFlavour == <<"r", "s", "s">>

AtomFlavour == <<"a", "t", "o", "m">>

\* the names of the variables the template is formatted with
UrlVar == <<"u", "r", "l">>

BaseUrlVar == <<"b", "a", "s", "e", "_", "u", "r", "l">>

FilePathVar == <<"f", "i", "l", "e", "_", "p", "a", "t", "h">>

FlavourVar == <<"f", "l", "a", "v", "o", "u", "r">>

\* the entries a renderer hands to cb_story
StoryEntries ==
    LET base == [file_path |-> FilePath, title |-> <<"t">>]
        nobody == {base, DictSet(base, "just_summary", 0)}
    IN nobody \cup {DictSet(e, "body", b) : e \in nobody, b \in Bodies}

\* the configurations of the blog
Configs ==
    LET base == [base_url |-> BaseUrl]
        flav == {base, DictSet(base, "default_flavour", AtomFlavour)}
        brk == flav \cup {DictSet(c, "readmore_breakpoint", ShortBreakpoint) : c \in flav}
    IN brk \cup {DictSet(c, "readmore_template", t) :
                    c \in brk, t \in {AllVarsTemplate, BadTemplate}}

\* the data of a request: bl_type is "file" for a single entry, "dir" for
\* a listing
Datas ==
    LET base == {[bl_type |-> "file"], [bl_type |-> "dir"]}
    IN base \cup {DictSet(d, "flavour", RssFlavour) : d \in base}

\* a request about to be rendered; the EntryBase of the other
\* specification stays as constructed
StoryInit ==
    /\ entry \in StoryEntries
    /\ entry0 = entry
    /\ config \in Configs
    /\ data \in Datas
    /\ storyRet = "notrun"
    /\ verifyRet = "notrun"
    /\ warnings = {}
    /\ _data = PyNone
    /\ _metadata = EmptyDict
    /\ lastData = PyNone
    /\ call = [op |-> "__init__", key |-> ""]
    /\ ret = PyNone
    /\ raised = ""

\* verify_installation
verify_installation ==
    /\ verifyRet = "notrun"
    /\ warnings' = {mem \in {"readmore_template", "readmore_breakpoint"} :
                        mem \notin DOMAIN config}
    /\ verifyRet' = "True"
    /\ UNCHANGED <<entry, entry0, config, data, storyRet>>

\* the mapping cb_story formats the template with
TemplateVars(base_url, file_path, flavour) ==
    LET url == base_url \o <<"/">> \o file_path \o <<".">> \o flavour
    IN (UrlVar :> url) @@ (BaseUrlVar :> base_url)
         @@ (FilePathVar :> file_path) @@ (FlavourVar :> flavour)

\* the flavour of the link: data.get("flavour", config.get("default_flavour", "html"))
LinkFlavour == DictGet(data, "flavour", DictGet(config, "default_flavour", HtmlFlavour))

\* cb_story with entry["just_summary"] = 1 moved up, before the test of bl_type
cb_storyFlagsEarly ==
    /\ storyRet = "notrun"
    /\ IF "body" \notin DOMAIN entry
       THEN /\ storyRet' = "returned"
            /\ UNCHANGED entry
       ELSE LET breakpoint == DictGet(config, "readmore_breakpoint", READMORE_BREAKPOINT)
                template == DictGet(config, "readmore_template", READMORE_TEMPLATE)
                match == search(breakpoint, entry["body"])
                flagged == DictSet(entry, "just_summary", 1)
            IN IF ~match.found
               THEN /\ storyRet' = "returned"
                    /\ UNCHANGED entry
               ELSE IF data["bl_type"] = "file"
               THEN /\ entry' = DictSet(flagged, "body", sub(breakpoint, entry["body"]))
                    /\ storyRet' = "returned"
               ELSE LET link == Format(template,
                                       TemplateVars(config["base_url"],
                                                    entry["file_path"], LinkFlavour))
                    IN IF ~link.ok
                       THEN /\ storyRet' = link.err
                            /\ entry' = flagged
                       ELSE /\ entry' = DictSet(flagged, "body",
                                            SubSeq(entry["body"], 1, match.start1)
                                                \o link.s \o match.group2)
                            /\ storyRet' = "returned"
    /\ UNCHANGED <<entry0, config, data, verifyRet, warnings>>

\* cb_story
cb_story ==
    /\ storyRet = "notrun"
    /\ IF "body" \notin DOMAIN entry
       THEN /\ storyRet' = "returned"
            /\ UNCHANGED entry
       ELSE LET breakpoint == DictGet(config, "readmore_breakpoint", READMORE_BREAKPOINT)
                template == DictGet(config, "readmore_template", READMORE_TEMPLATE)
                match == search(breakpoint, entry["body"])
            IN IF ~match.found
               THEN /\ storyRet' = "returned"
                    /\ UNCHANGED entry
               ELSE IF data["bl_type"] = "file"
               THEN /\ entry' = DictSet(entry, "body", sub(breakpoint, entry["body"]))
                    /\ storyRet' = "returned"
               ELSE LET link == Format(template,
                                       TemplateVars(config["base_url"],
                                                    entry["file_path"], LinkFlavour))
                    IN IF ~link.ok
                       THEN /\ storyRet' = link.err
                            /\ UNCHANGED entry
                       ELSE /\ entry' = DictSet(DictSet(entry, "just_summary", 1), "body",
                                            SubSeq(entry["body"], 1, match.start1)
                                                \o link.s \o match.group2)
                            /\ storyRet' = "returned"
    /\ UNCHANGED <<entry0, config, data, verifyRet, warnings>>

(***************************************************************************)
(* Specifications                                                          *)
(***************************************************************************)
EntryNext ==
    /\ \/ \E d \in DataValues : setData(d)
       \/ \E tt \in TimeTuples : setTime(tt)
       \/ \E key \in Keys : __getitem__(key)
       \/ \E key \in Keys, value \in Values : __setitem__(key, value)
       \/ \E key \in Keys : __delitem__(key)
       \/ \E key \in Keys : has_key(key)
       \/ keys
    /\ UNCHANGED storyVars

EntrySpec == EntryInit /\ [][EntryNext]_vars

StoryNext ==
    /\ \/ verify_installation
       \/ cb_story
    /\ UNCHANGED entryVars

StorySpec == StoryInit /\ [][StoryNext]_vars

(***************************************************************************)
(* Properties of EntryBase, checked under EntrySpec                        *)
(***************************************************************************)
\* the eight derived keys the documentation of setTime's fields lists
DerivedKeys == {"ti", "mo", "mo_num", "da", "yr", "fulltime", "w3cdate", "date"}

\* C1: a read of entry["content"] raises nothing and returns the string
\* form of the value given to the most recent setData (of None before any
\* setData), whatever was written to or deleted from the metadata.
C1_ContentReadsLiveData ==
    (call.op = "__getitem__" /\ call.key = CONTENT_KEY)
        => (raised = "" /\ ret = PyStr(Str(lastData)))

\* a read of entry["content"] after setData("text"), entry["content"] = v
\* and setTime, returning something else than the value stored under the key
C1_Witness ==
    /\ call.op = "__getitem__"
    /\ call.key = CONTENT_KEY
    /\ lastData = PyStr("text")
    /\ CONTENT_KEY \in DOMAIN _metadata
    /\ "fulltime" \in DOMAIN _metadata
    /\ ret # _metadata[CONTENT_KEY]

\* C2: the list keys() returns holds "content" exactly once.
C2_KeysHoldContentOnce ==
    call.op = "keys"
        => Cardinality({i \in DOMAIN ret.l : ret.l[i] = CONTENT_KEY}) = 1

\* C3, as stated: a setTime call makes the metadata's keys the former keys
\* united with the eight derived keys, and keeps the value of every other key.
C3_SetTimeEightKeys ==
    [][call'.op = "setTime" =>
          /\ DOMAIN _metadata' = DOMAIN _metadata \cup DerivedKeys
          /\ \A k \in DOMAIN _metadata \ DerivedKeys : _metadata'[k] = _metadata[k]]_vars

\* C3, amended: a setTime call makes the metadata's keys the former keys
\* united with the eight derived keys and "timetuple", and keeps the value
\* of every other key.
C3_SetTimeNineKeys ==
    [][call'.op = "setTime" =>
          /\ DOMAIN _metadata' = DOMAIN _metadata \cup DerivedKeys \cup {"timetuple"}
          /\ \A k \in DOMAIN _metadata \ (DerivedKeys \cup {"timetuple"}) :
                _metadata'[k] = _metadata[k]]_vars

\* setTime has just run on an entry that holds other keys
C3_Witness ==
    /\ call.op = "setTime"
    /\ DerivedKeys \subseteq DOMAIN _metadata
    /\ "title" \in DOMAIN _metadata
    /\ CONTENT_KEY \in DOMAIN _metadata

\* C9: del entry["content"] raises an error and leaves the metadata as it was.
C9_DelContentFails ==
    [][(call'.op = "__delitem__" /\ call'.key = CONTENT_KEY) =>
          (raised' = "KeyError" /\ _metadata' = _metadata)]_vars

(***************************************************************************)
(* Properties of the readmore plugin, checked under StorySpec              *)
(***************************************************************************)
\* cb_story has run on an entry with a body
StoryRan == storyRet # "notrun" /\ "body" \in DOMAIN entry0

\* the breakpoint and the template in force
Breakpoint == DictGet(config, "readmore_breakpoint", READMORE_BREAKPOINT)

Template == DictGet(config, "readmore_template", READMORE_TEMPLATE)

\* the render mode
Single == data["bl_type"] = "file"

\* the link the template renders to for the entry
Link == Format(Template, TemplateVars(config["base_url"], entry0["file_path"], LinkFlavour))

\* entry["just_summary"] is as cb_story found it: absent, or the same value
SummaryFlagKept ==
    /\ "just_summary" \in DOMAIN entry <=> "just_summary" \in DOMAIN entry0
    /\ "just_summary" \in DOMAIN entry => entry["just_summary"] = entry0["just_summary"]

\* C4: when the body holds no breakpoint, cb_story returns with the body as
\* it was and entry["just_summary"] not set, in single and in listing mode.
C4_NoMarkerIdentity ==
    (StoryRan /\ Occurrences(entry0["body"], Breakpoint) = {})
        => /\ storyRet = "returned"
           /\ entry["body"] = entry0["body"]
           /\ SummaryFlagKept

\* cb_story has run in listing mode on a body without the breakpoint that
\* holds an opening tag and a newline
C4_Witness ==
    /\ StoryRan
    /\ ~Single
    /\ Occurrences(entry0["body"], Breakpoint) = {}
    /\ \E i \in 1..Len(entry0["body"]) : DelimiterAt(entry0["body"], i)
    /\ \E i \in 1..Len(entry0["body"]) : entry0["body"][i] = "\n"

\* C5: in single mode, when the body holds the breakpoint, the body
\* cb_story leaves holds no breakpoint, is the former body without its
\* breakpoints, and entry["just_summary"] is not set.
C5_SingleStripsAll ==
    (StoryRan /\ Single /\ Occurrences(entry0["body"], Breakpoint) # {})
        => /\ storyRet = "returned"
           /\ Occurrences(entry["body"], Breakpoint) = {}
           /\ entry["body"] = sub(Breakpoint, entry0["body"])
           /\ SummaryFlagKept

\* an inline closing tag
ClosingTag == <<"<", "/", "p", ">">>

\* t is zero or more closing tags
ClosingTags(t) ==
    /\ Len(t) % Len(ClosingTag) = 0
    /\ \A j \in 0..(Len(t) \div Len(ClosingTag) - 1) :
          StartsAt(t, ClosingTag, j * Len(ClosingTag) + 1)

\* the positions of the newlines of s from position i on
NewlinesFrom(s, i) == {q \in i..Len(s) : s[q] = "\n"}

\* the body holds exactly one breakpoint, followed on its line by zero or
\* more closing tags and a newline
OneMarkerThenNewline(body) ==
    /\ Cardinality(Occurrences(body, Breakpoint)) = 1
    /\ LET after == Min(Occurrences(body, Breakpoint)) + Len(Breakpoint)
       IN /\ NewlinesFrom(body, after) # {}
          /\ ClosingTags(SubSeq(body, after, Min(NewlinesFrom(body, after)) - 1))

\* C6: in listing mode, when the body holds exactly one breakpoint followed
\* on its line by closing tags and a newline, cb_story returns with the
\* body set to the text before the breakpoint, the rendered link and the
\* closing tags, and with entry["just_summary"] set.
C6_ListingOneMarker ==
    (StoryRan /\ ~Single /\ OneMarkerThenNewline(entry0["body"]))
        => /\ storyRet = "returned"
           /\ Link.ok
           /\ LET body == entry0["body"]
                  start == Min(Occurrences(body, Breakpoint))
                  after == start + Len(Breakpoint)
                  trailing == SubSeq(body, after, Min(NewlinesFrom(body, after)) - 1)
              IN entry["body"] = SubSeq(body, 1, start - 1) \o Link.s \o trailing
           /\ "just_summary" \in DOMAIN entry
           /\ entry["just_summary"] = 1

\* cb_story changed the body in listing mode
Truncated == StoryRan /\ ~Single /\ entry["body"] # entry0["body"]

\* C7: cb_story changes no key of the entry but "body" and "just_summary";
\* it sets "just_summary" when it truncates the body in listing mode and
\* otherwise leaves it as it was, absent or with its value.
C7_OnlyBodyAndFlag ==
    storyRet # "notrun"
        => /\ DOMAIN entry \ {"just_summary"} = DOMAIN entry0 \ {"just_summary"}
           /\ \A k \in DOMAIN entry0 \ {"body", "just_summary"} : entry[k] = entry0[k]
           /\ Truncated => ("just_summary" \in DOMAIN entry /\ entry["just_summary"] = 1)
           /\ ~Truncated => SummaryFlagKept

\* cb_story has truncated a body in listing mode and set the flag of an
\* entry that came without it
C7_Witness ==
    /\ Truncated
    /\ storyRet = "returned"
    /\ "just_summary" \notin DOMAIN entry0
    /\ entry["just_summary"] = 1
    /\ entry["title"] = entry0["title"]

\* C8: with a template that names a variable the plugin does not provide,
\* verify_installation does not return success and cb_story does not raise.
C8_BadTemplateReported ==
    ~Format(Template, TemplateVars(config["base_url"], FilePath, LinkFlavour)).ok
        => (verifyRet # "True" /\ storyRet \in {"notrun", "returned"})

\* C10: in listing mode, when the pattern matches, the body cb_story leaves
\* starts with the text before the first breakpoint followed by the
\* rendered link, and holds the rendered link once.
C10_FirstMarkerOnly ==
    (StoryRan /\ ~Single /\ search(Breakpoint, entry0["body"]).found)
        => /\ storyRet = "returned"
           /\ Link.ok
           /\ LET body == entry0["body"]
                  start == Min(Occurrences(body, Breakpoint))
              IN /\ StartsAt(entry["body"], SubSeq(body, 1, start - 1) \o Link.s, 1)
                 /\ Cardinality(Occurrences(entry["body"], Link.s)) = 1

====
